---- MODULE Spec2Model ----
(***************************************************************************)
(* Email verification by one-time passcode and the client-side route gate  *)
(* of the user-management application.                                     *)
(*                                                                         *)
(* The email_otps table, the users.is_email_verified column and            *)
(* cleanup_expired_otps() are modelled from the schema script; the         *)
(* handlers behind /email/send-otp, /email/resend-otp and                  *)
(* /email/verify-otp are not part of the sources at hand and are modelled  *)
(* from the design document (sections 4.1, 4.2, 5 and 6): each handler is  *)
(* a sequence of Credential Store calls, and only the calls themselves are *)
(* atomic.  The route gate is modelled from the page components.           *)
(***************************************************************************)
EXTENDS Integers, Sequences, FiniteSets, TLC

\* ------------------------------------------------------------------------
\* Bounds and program constants
\* ------------------------------------------------------------------------

\* Addresses that pass validation, and one input that does not.
Emails == {"a"}
Malformed == "malformed"

\* Stand-ins for the 6-digit codes; two values make both a collision and a
\* difference between two records possible.
Codes == {1, 2}

\* Validity window of a code, in minutes.
ExpiryMinutes == 10

\* The clock stops advancing at MaxTime.
MaxTime == 15

\* Amounts by which the clock advances: inside the window, and onto its end.
Advances == {ExpiryMinutes \div 2, ExpiryMinutes}

\* Number of rows the SERIAL id of email_otps hands out.
MaxOtps == 2

\* The same number where verify requests race: they race for one record.
MaxRaceOtps == 1

\* Concurrent /verify-otp requests and concurrent /send-otp, /resend-otp
\* requests.
VReqs == {1, 2}
IReqs == {1, 2}

NoRec == 0

\* An address that is not the address of the account.
OtherEmail == "b"

\* The auto-send effect is followed up to this many sends.
MaxAutoSends == 2

\* How far below 0 the countdown is followed.
MaxOvershoot == 2

VARIABLES
    now,        \* server clock (NOW()), minutes
    otps,       \* email_otps rows in insertion (created_at) order
    nextId,     \* next value of the SERIAL id
    users,      \* users rows by email: exists, is_email_verified
    vreq,       \* /verify-otp requests in flight: position and locals
    ireq,       \* /send-otp requests in flight: position and locals
    resp,       \* the response the last step returned, NoResp if none
    wins        \* history: ids of the rows a verify reported success for,
                \* and whether some row had two such reports

svars == <<now, otps, nextId, users, vreq, ireq, resp, wins>>

VARIABLES
    cLoading,   \* AuthProvider: loading
    cUser,      \* AuthProvider: user, Null when there is none
    page,       \* the route the browser shows
    isChecking, \* EmailVerificationGuard: isChecking
    redirect    \* the route a router.push has asked for, "" if none

VARIABLES
    qEmail,                 \* VerifyEmailContent: searchParams.get('email')
    verificationAttempted,  \* VerifyEmailContent: verificationAttempted
    isLoading,              \* VerifyEmailContent: isLoading
    countdown,              \* VerifyEmailContent: countdown, 1 for "> 0"
    inflight,               \* OTP requests of the page awaiting a response
    toast,                  \* the last toast shown, NoToast if none
    autoSends               \* history: sends made by the auto-send effect
                            \* since the page was mounted

pvars == <<qEmail, verificationAttempted, isLoading, countdown, inflight,
           toast, autoSends>>

cvars == <<cLoading, cUser, page, isChecking, redirect, pvars>>

VARIABLES
    roleCheck,  \* users.role: the values its CHECK accepts, NoColumn if the
                \* column does not exist
    applied,    \* the schema scripts run so far, in order
    dbRole,     \* users.role by email of the row
    sqlState    \* outcome of the last statement that wrote users.role

dvars == <<roleCheck, applied, dbRole, sqlState>>

VARIABLES
    token,      \* localStorage: token
    tokenExpiry,\* localStorage: tokenExpiry, NoExpiry if absent
    cNow,       \* Date.now() of the browser, in days
    initAuth,   \* initAuth of the mounted AuthProvider: position, the
                \* values it read and what /users/me answered
    loginPc,    \* login: position
    apiReq,     \* the data request of a page awaiting its response
    loadedFor   \* the route whose data-loading effect has run since it
                \* was mounted, "" if none

avars == <<token, tokenExpiry, cNow, initAuth, loginPc, apiReq, loadedFor>>

VARIABLES
    account,    \* the users row of one account: email, is_email_verified
    verifiedFor \* history: the emails a verify has succeeded for

uvars == <<account, verifiedFor>>

VARIABLES
    timer       \* VerifyEmailContent: the countdown interval is set

xvars == <<dvars, avars, uvars, timer>>

vars == <<svars, cvars, xvars>>

\* ------------------------------------------------------------------------
\* Credential Store
\* ------------------------------------------------------------------------

Rows == {otps[i] : i \in 1..Len(otps)}

RowsOf(email) == {r \in Rows : r.email = email}

\* users row at signup: is_email_verified defaults to FALSE.
NewUser == [exists |-> TRUE, is_email_verified |-> FALSE]

NoUser == [exists |-> FALSE, is_email_verified |-> FALSE]

\* Variant: the end of the window counts as expired.
IsExpired_Inclusive(r, t) == t >= r.expires_at

\* Expiry test of the verifier: expired strictly after expires_at.
IsExpired(r, t) == t > r.expires_at

\* An active record: unused and unexpired.
IsActive(r, t) == ~r.is_used /\ ~IsExpired(r, t)

ActiveOf(email, t) == {r \in RowsOf(email) : IsActive(r, t)}

Latest(S) == CHOOSE r \in S : \A q \in S : q.id <= r.id

\* findLatestUnusedOtp(email) -> record | none
FindLatestUnusedOtp(email) ==
    LET S == {r \in RowsOf(email) : ~r.is_used}
    IN  IF S = {} THEN NoRec ELSE Latest(S).id

\* The last-issued record of an email, used or not.
FindLastIssued(email) ==
    IF RowsOf(email) = {} THEN NoRec ELSE Latest(RowsOf(email)).id

RowById(id) == CHOOSE r \in Rows : r.id = id

HasRow(id) == \E r \in Rows : r.id = id

\* Variant: the window is one minute short.
CreateOtp_ShortWindow(rows, id, email, code, t) ==
    Append(rows, [id |-> id, email |-> email, otp_code |-> code,
                  expires_at |-> t + ExpiryMinutes - 1, is_used |-> FALSE])

\* createOtp(email, code, expiresAt)
CreateOtp(rows, id, email, code, t) ==
    Append(rows, [id |-> id, email |-> email, otp_code |-> code,
                  expires_at |-> t + ExpiryMinutes, is_used |-> FALSE])

\* Variant: the update of is_used is not conditional.
CanMarkUsed_Unconditional(id) == HasRow(id)

\* markOtpUsed(recordId): succeeds only on a row that is not already used.
CanMarkUsed(id) == HasRow(id) /\ ~RowById(id).is_used

\* UPDATE email_otps SET is_used = TRUE on one row.
SetUsed(r) == [r EXCEPT !.is_used = TRUE]

\* Variant: the row is left as it is.
MarkOtpUsed_Skipped(rows, id) == rows

MarkOtpUsed(rows, id) ==
    [i \in 1..Len(rows) |->
        IF rows[i].id = id THEN SetUsed(rows[i]) ELSE rows[i]]

\* Variant: a row is deleted in the minute it expires.
CleanupEligible_Inclusive(r, t) == r.expires_at <= t \/ r.is_used

\* Variant: resend leaves the earlier rows alone.
Supersede_Nothing(rows, email) == rows

\* resend: every earlier unused row of the email is superseded.
Supersede(rows, email) ==
    [i \in 1..Len(rows) |->
        IF rows[i].email = email /\ ~rows[i].is_used
        THEN SetUsed(rows[i]) ELSE rows[i]]

\* cleanup_expired_otps(): WHERE expires_at < NOW() OR is_used = TRUE
CleanupEligible(r, t) == r.expires_at < t \/ r.is_used

\* ------------------------------------------------------------------------
\* Client: AuthProvider, the pages and EmailVerificationGuard
\* ------------------------------------------------------------------------

Roles == {"admin", "user", "company"}

Null == [email |-> "", role |-> "", is_email_verified |-> FALSE]

\* The user records /users/me can return.
ClientUsers ==
    [email : Emails, role : Roles, is_email_verified : BOOLEAN]

Protected == {"/admin", "/company", "/jobs", "/profile"}

Routes == Protected \cup {"/", "/login", "/verify-email"}

View(kind, email) == [kind |-> kind, email |-> email]

\* Variant: the guard admits every signed-in user.
GuardView_AnyUser(ld, chk, u) ==
    IF ld \/ chk THEN View("Loading", "")
    ELSE IF u = Null THEN View("Unauthenticated", "")
    ELSE View("Admit", "")

\* What EmailVerificationGuard renders (no page passes a fallback).
GuardView(ld, chk, u) ==
    IF ld \/ chk THEN View("Loading", "")
    ELSE IF u = Null THEN View("Unauthenticated", "")
    ELSE IF ~u.is_email_verified
         THEN View("VerificationRequired", u.email)
    ELSE View("Admit", "")

\* Variant: AdminPage without its role check.
AdminPageView_NoRoleCheck(ld, chk, u) ==
    IF ld THEN View("Loading", "")
    ELSE IF u = Null THEN View("Unauthenticated", "")
    ELSE GuardView(ld, chk, u)

\* AdminPage: loading, then the login check, then the role check, then the
\* guard.
AdminPageView(ld, chk, u) ==
    IF ld THEN View("Loading", "")
    ELSE IF u = Null THEN View("Unauthenticated", "")
    ELSE IF u.role # "admin" THEN View("Forbidden", "")
    ELSE GuardView(ld, chk, u)

\* CompanyDashboard: user?.role === 'company' || user?.role === 'admin'
HasCompanyAccess(u) == u # Null /\ u.role \in {"company", "admin"}

CompanyDashboardView(ld, chk, u) ==
    IF ld THEN View("Loading", "")
    ELSE IF ~HasCompanyAccess(u) THEN View("Forbidden", "")
    ELSE GuardView(ld, chk, u)

JobsPageView(ld, chk, u) ==
    IF ld THEN View("Loading", "") ELSE GuardView(ld, chk, u)

ProfilePageView(ld, chk, u) ==
    IF ld THEN View("Loading", "")
    ELSE IF u = Null THEN View("Unauthenticated", "")
    ELSE GuardView(ld, chk, u)

\* Home: the dashboard, or nothing while a redirect is on its way.
HomeView(ld, u) ==
    IF ld THEN View("Loading", "")
    ELSE IF u = Null \/ ~u.is_email_verified THEN View("Nothing", "")
    ELSE View("Admit", "")

PageView(p, ld, chk, u) ==
    CASE p = "/admin"   -> AdminPageView(ld, chk, u)
      [] p = "/company" -> CompanyDashboardView(ld, chk, u)
      [] p = "/jobs"    -> JobsPageView(ld, chk, u)
      [] p = "/profile" -> ProfilePageView(ld, chk, u)

\* Whether the page's render reaches <EmailVerificationGuard>.
GuardMounted(p, ld, u) ==
    /\ p \in Protected
    /\ ~ld
    /\ PageView(p, ld, TRUE, u).kind = "Loading"

\* useState(true): a guard that is not mounted starts checking again.
Checking(p, ld, u, chk) == IF GuardMounted(p, ld, u) THEN chk ELSE TRUE

\* ------------------------------------------------------------------------
\* Client: the verify-email page
\* ------------------------------------------------------------------------

\* The values of the email query parameter: none, the address of the
\* account, another address.
QueryEmails == Emails \cup {"", OtherEmail}

\* const email = searchParams.get('email') || user?.email || ''
PageEmail(q, u) == IF q # "" THEN q ELSE IF u # Null THEN u.email ELSE ""

\* emailAPI: the three endpoints that take the email from the payload and
\* the two that take it from the session.
PayloadEndpoints ==
    {"/email/send-otp", "/email/verify-otp", "/email/resend-otp"}

SessionEndpoints ==
    {"/email/send-otp-authenticated", "/email/verify-otp-authenticated"}

\* A request of the page; sess is the address of the signed-in user whose
\* token the request interceptor attaches, "" if there is none.
OtpRequest(endpoint, email, by, u) ==
    [endpoint |-> endpoint, email |-> email, by |-> by,
     sess |-> IF u = Null THEN "" ELSE u.email]

\* The address the service acts on.
ActedEmail(r) ==
    IF r.endpoint \in SessionEndpoints THEN r.sess ELSE r.email

FailureKinds == {"NotFound", "Expired", "Mismatch", "AlreadyUsed"}

SendOutcomes == {"Success", "ValidationError", "RateLimitExceeded"}

\* How a failure reaches the client: in the body of a 2xx response, as the
\* detail of a 4xx response, or as a 4xx response without detail.
WireForms == {"body", "detail", "bare"}

\* Variant: the detail of a failed verify names the failure kind.
ServerVerifyResponse_KindInDetail(kind, wire) ==
    IF kind = "Success"
    THEN [ok |-> TRUE, success |-> TRUE,
          message |-> "Email verified successfully", detail |-> ""]
    ELSE IF wire = "body"
    THEN [ok |-> TRUE, success |-> FALSE, message |-> kind, detail |-> ""]
    ELSE [ok |-> FALSE, success |-> FALSE, message |-> "",
          detail |-> IF wire = "detail" THEN kind ELSE ""]

\* The response of /email/verify-otp: {message, success}; every failure
\* kind is surfaced as "verification failed".
ServerVerifyResponse(kind, wire) ==
    IF kind = "Success"
    THEN [ok |-> TRUE, success |-> TRUE,
          message |-> "Email verified successfully", detail |-> ""]
    ELSE IF wire = "body"
    THEN [ok |-> TRUE, success |-> FALSE,
          message |-> "Verification failed", detail |-> ""]
    ELSE [ok |-> FALSE, success |-> FALSE, message |-> "",
          detail |-> IF wire = "detail" THEN "Verification failed" ELSE ""]

\* The response of /email/send-otp.
ServerSendResponse(kind, wire) ==
    IF kind = "Success"
    THEN [ok |-> TRUE, success |-> TRUE,
          message |-> "OTP sent successfully", detail |-> ""]
    ELSE IF wire = "body"
    THEN [ok |-> TRUE, success |-> FALSE, message |-> kind, detail |-> ""]
    ELSE [ok |-> FALSE, success |-> FALSE, message |-> "",
          detail |-> IF wire = "detail" THEN kind ELSE ""]

\* VerifyEmailContent.verifyOTP: the toast for a response.
VerifyMessage(r) ==
    IF r.ok
    THEN IF r.success THEN r.message
         ELSE "Verification code is invalid or expired"
    ELSE IF r.detail # "" THEN r.detail ELSE "Verification failed"

\* EmailVerification.verifyOTP: the toast for a response.
ComponentVerifyMessage(r) ==
    IF r.ok
    THEN IF r.success THEN r.message ELSE "OTP verification failed"
    ELSE IF r.detail # "" THEN r.detail ELSE "OTP verification failed"

\* VerifyEmailContent.sendOTP: the toast for a response.
SendMessage(r) ==
    IF r.ok
    THEN IF r.success THEN r.message
         ELSE "Failed to send verification code"
    ELSE IF r.detail # "" THEN r.detail
         ELSE "Failed to send verification code"

NoToast == [op |-> "", kind |-> "", wire |-> "", text |-> ""]

\* Variant: sendOTP leaves verificationAttempted as it is.
AttemptedAfterSend_Unset(v) == v

\* sendOTP: setVerificationAttempted(true)
AttemptedAfterSend(v) == TRUE

\* The auto-send effect has its condition: email && !verificationAttempted.
AutoSendDue ==
    /\ page = "/verify-email"
    /\ PageEmail(qEmail, cUser) # ""
    /\ ~verificationAttempted

\* The form is rendered: not the spinner, not the Email Not Found card.
FormShown ==
    /\ page = "/verify-email"
    /\ ~cLoading
    /\ PageEmail(qEmail, cUser) # ""

\* ------------------------------------------------------------------------
\* The users.role column, the browser's storage, the account row
\* ------------------------------------------------------------------------

NoColumn == {}

RoleScriptRoles == {"admin", "user"}

JobScriptRoles == {"admin", "user", "company"}

CompanyEmail == "company@example.com"

DbUsers == {CompanyEmail, "x@example.com"}

NoRow == "no row"

NoRole == "no column"

NoToken == ""

NoExpiry == 0

TokenLifeDays == 2

MaxClock == 3

InitStart ==
    [pc |-> "start", token |-> NoToken, tokenExpiry |-> NoExpiry,
     now |-> 0, fetched |-> ""]

NoReq == [endpoint |-> "", page |-> "", caller |-> Null]

NoAccount == [exists |-> FALSE, email |-> "", is_email_verified |-> FALSE]

\* A new document: the AuthProvider and the page are mounted afresh and
\* the requests of the old document are abandoned.
NewDocument ==
    /\ initAuth' = InitStart
    /\ loginPc' = "idle"
    /\ apiReq' = NoReq
    /\ loadedFor' = ""
    /\ timer' = FALSE

\* ------------------------------------------------------------------------
\* Requests
\* ------------------------------------------------------------------------

IdleV == [pc |-> "idle", email |-> "", otp_code |-> 0, rec |-> NoRec,
          live |-> FALSE, edge |-> FALSE]

IdleI == [pc |-> "idle", email |-> ""]

NoResp == [op |-> "", email |-> "", otp_code |-> 0, rec |-> NoRec,
           result |-> "", delivered |-> FALSE, deleted_count |-> 0,
           live |-> FALSE, edge |-> FALSE]

\* The response to a /verify-otp request.
VerifyResp(req, res) ==
    [op |-> "verify", email |-> req.email, otp_code |-> req.otp_code,
     rec |-> req.rec, result |-> res, delivered |-> FALSE,
     live |-> req.live,
     edge |-> req.edge]

\* The response to a /send-otp or /resend-otp request.
IssueResp(kind, e, c, id, res, sent) ==
    [NoResp EXCEPT !.op = kind, !.email = e, !.otp_code = c, !.rec = id,
                   !.result = res, !.delivered = sent]

\* A request is taken by the first idle worker.
FirstIdle(req, s) ==
    /\ req[s].pc = "idle"
    /\ \A q \in DOMAIN req : q < s => req[q].pc # "idle"

Init ==
    /\ now = 0
    /\ otps = <<>>
    /\ nextId = 1
    /\ users = [e \in Emails |-> NoUser]
    /\ vreq = [v \in VReqs |-> IdleV]
    /\ ireq = [s \in IReqs |-> IdleI]
    /\ resp = NoResp
    /\ wins = [once |-> {}, twice |-> FALSE]
    /\ cLoading = TRUE
    /\ cUser = Null
    /\ page = "/"
    /\ isChecking = TRUE
    /\ redirect = ""
    /\ qEmail = ""
    /\ verificationAttempted = FALSE
    /\ isLoading = FALSE
    /\ countdown = 0
    /\ inflight = {}
    /\ toast = NoToast
    /\ autoSends = 0
    /\ roleCheck = NoColumn
    /\ applied = <<>>
    /\ dbRole = [e \in DbUsers |-> NoRow]
    /\ sqlState = ""
    /\ token = NoToken
    /\ tokenExpiry = NoExpiry
    /\ cNow = 0
    /\ initAuth = InitStart
    /\ loginPc = "idle"
    /\ apiReq = NoReq
    /\ loadedFor = ""
    /\ account = NoAccount
    /\ verifiedFor = {}
    /\ timer = FALSE

\* POST /auth/signup: a users row with is_email_verified = FALSE.
Signup(e) ==
    /\ ~users[e].exists
    /\ users' = [users EXCEPT ![e] = NewUser]
    /\ resp' = NoResp
    /\ UNCHANGED <<now, otps, nextId, vreq, ireq, wins, cvars, xvars>>

\* The clock advances.
Tick(d) ==
    /\ now + d <= MaxTime
    /\ now' = now + d
    /\ resp' = NoResp
    /\ UNCHANGED <<otps, nextId, users, vreq, ireq, wins, cvars, xvars>>

\* cleanup_expired_otps(): the DELETE, and ROW_COUNT as the return value.
Cleanup ==
    /\ otps' = SelectSeq(otps, LAMBDA r : ~CleanupEligible(r, now))
    /\ resp' = [NoResp EXCEPT !.op = "cleanup",
                              !.deleted_count = Len(otps) - Len(otps')]
    /\ UNCHANGED <<now, nextId, users, vreq, ireq, wins, cvars, xvars>>

\* Variant: a failed dispatch aborts the creation of the record.
AfterDispatch_Abort(rows, created, sent) == IF sent THEN created ELSE rows

\* The Notification Dispatcher is called after createOtp; its failure must
\* not abort the creation, so the created record stays either way.
AfterDispatch(rows, created, sent) == created

\* Variant: an email that has a record stays limited after its expiry.
RateLimited_AnyRecord(email, t) == FindLastIssued(email) # NoRec

\* Variant: only an unused last code limits the rate.
RateLimited_UnusedOnly(email, t) ==
    /\ FindLatestUnusedOtp(email) # NoRec
    /\ ~IsExpired(RowById(FindLatestUnusedOtp(email)), t)

\* issue(email), first store call: validation and the rate limit.  No
\* reissue while the last-issued code of the email is still valid.
RateLimited(email, t) ==
    /\ FindLastIssued(email) # NoRec
    /\ ~IsExpired(RowById(FindLastIssued(email)), t)

IssueCheck(s, e) ==
    /\ FirstIdle(ireq, s)
    /\ IF e \notin Emails
       THEN /\ resp' = IssueResp("issue", e, 0, NoRec, "ValidationError", FALSE)
            /\ UNCHANGED ireq
       ELSE IF RateLimited(e, now)
       THEN /\ resp' = IssueResp("issue", e, 0, NoRec, "RateLimitExceeded", FALSE)
            /\ UNCHANGED ireq
       ELSE /\ ireq' = [ireq EXCEPT ![s] = [pc |-> "create", email |-> e]]
            /\ resp' = NoResp
    /\ UNCHANGED <<now, otps, nextId, users, vreq, wins, cvars, xvars>>

\* issue(email), second store call: createOtp, then the Notification
\* Dispatcher; a dispatch failure does not abort the issue.
IssueCreate(s, c, sent, cap) ==
    /\ ireq[s].pc = "create"
    /\ nextId <= cap
    /\ otps' = AfterDispatch(otps,
                 CreateOtp(otps, nextId, ireq[s].email, c, now), sent)
    /\ nextId' = nextId + 1
    /\ ireq' = [ireq EXCEPT ![s] = IdleI]
    /\ resp' = IssueResp("issue", ireq[s].email, c, nextId, "Success", sent)
    /\ UNCHANGED <<now, users, vreq, wins, cvars, xvars>>

\* resend(email): like issue without the rate limit; the earlier unused
\* rows of the email are superseded at creation time.
Resend(e, c, sent, cap) ==
    /\ IF e \notin Emails
       THEN /\ resp' = IssueResp("resend", e, 0, NoRec, "ValidationError", FALSE)
            /\ UNCHANGED <<otps, nextId>>
       ELSE /\ nextId <= cap
            /\ otps' = AfterDispatch(otps,
                         CreateOtp(Supersede(otps, e), nextId, e, c, now),
                         sent)
            /\ nextId' = nextId + 1
            /\ resp' = IssueResp("resend", e, c, nextId, "Success", sent)
    /\ UNCHANGED <<now, users, vreq, ireq, wins, cvars, xvars>>

\* Variant: the expiry of the record is not checked.
VerifyOutcome_NoExpiry(email, code, t) ==
    LET id == FindLatestUnusedOtp(email)
    IN  IF id = NoRec THEN "NotFound"
        ELSE IF code # RowById(id).otp_code THEN "Mismatch"
        ELSE "Match"

\* Variant: the code is compared before the expiry is checked.
VerifyOutcome_MismatchFirst(email, code, t) ==
    LET id == FindLatestUnusedOtp(email)
    IN  IF id = NoRec THEN "NotFound"
        ELSE IF code # RowById(id).otp_code THEN "Mismatch"
        ELSE IF IsExpired(RowById(id), t) THEN "Expired"
        ELSE "Match"

\* verify(email, code), first store call: findLatestUnusedOtp and the
\* checks on the record found, in the order NotFound, Expired, Mismatch.
VerifyOutcome(email, code, t) ==
    LET id == FindLatestUnusedOtp(email)
    IN  IF id = NoRec THEN "NotFound"
        ELSE IF IsExpired(RowById(id), t) THEN "Expired"
        ELSE IF code # RowById(id).otp_code THEN "Mismatch"
        ELSE "Match"

VerifyLookup(v, e, c) ==
    LET id  == FindLatestUnusedOtp(e)
        out == VerifyOutcome(e, c, now)
        req == [IdleV EXCEPT
                  !.email = e, !.otp_code = c,
                  !.live  = \E r \in ActiveOf(e, now) : r.otp_code = c,
                  !.edge  = /\ id # NoRec
                            /\ RowById(id).otp_code = c
                            /\ RowById(id).expires_at = now]
    IN  /\ FirstIdle(vreq, v)
        /\ IF out = "Match"
           THEN /\ vreq' = [vreq EXCEPT ![v] =
                              [req EXCEPT !.pc = "mark", !.rec = id]]
                /\ resp' = NoResp
           ELSE /\ resp' = VerifyResp(req, out)
                /\ UNCHANGED vreq
        /\ UNCHANGED <<now, otps, nextId, users, ireq, wins, cvars, xvars>>

\* verify, second store call: the conditional update of is_used.
VerifyMark(v) ==
    /\ vreq[v].pc = "mark"
    /\ IF CanMarkUsed(vreq[v].rec)
       THEN /\ otps' = MarkOtpUsed(otps, vreq[v].rec)
            /\ vreq' = [vreq EXCEPT ![v].pc = "setuser"]
            /\ resp' = NoResp
       ELSE /\ vreq' = [vreq EXCEPT ![v] = IdleV]
            /\ resp' = VerifyResp(vreq[v], "AlreadyUsed")
            /\ UNCHANGED otps
    /\ UNCHANGED <<now, nextId, users, ireq, wins, cvars, xvars>>

\* verify, third store call: getUserByEmail and setUserVerified, then the
\* success response.
VerifySetUser(v) ==
    /\ vreq[v].pc = "setuser"
    /\ users' = [users EXCEPT ![vreq[v].email] =
          IF @.exists THEN [@ EXCEPT !.is_email_verified = TRUE] ELSE @]
    /\ vreq' = [vreq EXCEPT ![v] = IdleV]
    /\ resp' = VerifyResp(vreq[v], "Success")
    /\ wins' = [once  |-> wins.once \cup {vreq[v].rec},
                twice |-> wins.twice \/ vreq[v].rec \in wins.once]
    /\ UNCHANGED <<now, otps, nextId, ireq, cvars, xvars>>

\* The steps of the service with the given pools of request workers and
\* the given number of rows.
Service(IW, VW, cap) ==
    \/ \E e \in Emails : Signup(e)
    \/ \E d \in Advances : Tick(d)
    \/ Cleanup
    \/ \E s \in IW, e \in Emails \cup {Malformed} : IssueCheck(s, e)
    \/ \E s \in IW, c \in Codes, sent \in BOOLEAN :
          IssueCreate(s, c, sent, cap)
    \/ \E e \in Emails \cup {Malformed}, c \in Codes, sent \in BOOLEAN :
          Resend(e, c, sent, cap)
    \/ \E v \in VW, e \in Emails, c \in Codes : VerifyLookup(v, e, c)
    \/ \E v \in VW : VerifyMark(v)
    \/ \E v \in VW : VerifySetUser(v)

\* Racing issue and resend requests, one verify request at a time.
Next == Service(IReqs, {1}, MaxOtps)

Spec == Init /\ [][Next]_vars

\* Racing verify requests, one issue request at a time.
NextVerifyRace == Service({1}, VReqs, MaxRaceOtps)

SpecVerifyRace == Init /\ [][NextVerifyRace]_vars

\* ------------------------------------------------------------------------
\* Client steps
\* ------------------------------------------------------------------------

\* initAuth: ends with loading = false, with or without a user.
InitAuth(u) ==
    /\ cLoading
    /\ cLoading' = FALSE
    /\ cUser' = u
    /\ isChecking' = Checking(page, FALSE, u, isChecking)
    /\ UNCHANGED <<page, redirect, svars, xvars, pvars>>

\* login: setUser(userResponse.data)
Login(u) ==
    /\ ~cLoading /\ cUser = Null
    /\ cUser' = u
    /\ isChecking' = Checking(page, cLoading, u, isChecking)
    /\ UNCHANGED <<cLoading, page, redirect, svars, xvars, pvars>>

\* logout: setUser(null) and window.location.href = '/', a full reload.
Logout ==
    /\ cUser # Null
    /\ cUser' = Null
    /\ cLoading' = TRUE
    /\ page' = "/"
    /\ isChecking' = TRUE
    /\ redirect' = ""
    /\ token' = NoToken
    /\ tokenExpiry' = NoExpiry
    /\ NewDocument
    /\ UNCHANGED <<svars, pvars, dvars, uvars, cNow>>

\* refreshUser: setUser(response.data), the record of the same account.
RefreshUser(u) ==
    /\ cUser # Null /\ u.email = cUser.email /\ u # cUser
    /\ cUser' = u
    /\ isChecking' = Checking(page, cLoading, u, isChecking)
    /\ UNCHANGED <<cLoading, page, redirect, svars, xvars, pvars>>

\* The browser opens a route.
Navigate(p) ==
    /\ p # page
    /\ page' = p
    /\ isChecking' = TRUE
    /\ redirect' = ""
    /\ loadedFor' = ""
    /\ UNCHANGED <<cLoading, cUser, svars, pvars, dvars, uvars, timer,
                   token, tokenExpiry, cNow, initAuth, loginPc, apiReq>>

\* The effect of EmailVerificationGuard.
GuardEffect ==
    /\ GuardMounted(page, cLoading, cUser)
    /\ isChecking' = FALSE
    /\ redirect' = IF cUser = Null THEN "/"
                   ELSE IF ~cUser.is_email_verified THEN "/verify-email"
                   ELSE redirect
    /\ <<isChecking', redirect'>> # <<isChecking, redirect>>
    /\ UNCHANGED <<cLoading, cUser, page, svars, xvars, pvars>>

\* The redirect effect of Home.
HomeEffect ==
    /\ page = "/" /\ ~cLoading
    /\ redirect' = IF cUser = Null THEN "/login"
                   ELSE IF ~cUser.is_email_verified THEN "/verify-email"
                   ELSE redirect
    /\ redirect' # redirect
    /\ UNCHANGED <<cLoading, cUser, page, isChecking, svars, xvars, pvars>>

\* router.push takes effect.
FollowRedirect ==
    /\ redirect # ""
    /\ page' = redirect
    /\ redirect' = ""
    /\ isChecking' = TRUE
    /\ loadedFor' = ""
    /\ UNCHANGED <<cLoading, cUser, svars, pvars, dvars, uvars, timer,
                   token, tokenExpiry, cNow, initAuth, loginPc, apiReq>>

GateNext ==
    \/ \E u \in ClientUsers \cup {Null} : InitAuth(u)
    \/ \E u \in ClientUsers : Login(u)
    \/ Logout
    \/ \E u \in ClientUsers : RefreshUser(u)
    \/ \E p \in Routes : Navigate(p)
    \/ GuardEffect
    \/ HomeEffect
    \/ FollowRedirect

GateSpec == Init /\ [][GateNext]_vars

\* ------------------------------------------------------------------------
\* Steps of the verify-email page
\* ------------------------------------------------------------------------

\* The page is opened with a query string: a new mount of
\* VerifyEmailContent.
OpenVerifyEmail(q) ==
    /\ page' = "/verify-email"
    /\ qEmail' = q
    /\ verificationAttempted' = FALSE
    /\ isLoading' = FALSE
    /\ countdown' = 0
    /\ inflight' = {}
    /\ toast' = NoToast
    /\ autoSends' = 0
    /\ isChecking' = TRUE
    /\ redirect' = ""
    /\ loadedFor' = ""
    /\ timer' = FALSE
    /\ UNCHANGED <<cLoading, cUser, svars, dvars, uvars,
                   token, tokenExpiry, cNow, initAuth, loginPc, apiReq>>

\* The auto-send effect: sendOTP() when email && !verificationAttempted.
AutoSendEffect ==
    /\ AutoSendDue
    /\ autoSends < MaxAutoSends
    /\ verificationAttempted' = AttemptedAfterSend(verificationAttempted)
    /\ isLoading' = TRUE
    /\ inflight' = inflight \cup
          {OtpRequest("/email/send-otp", PageEmail(qEmail, cUser),
                      "effect", cUser)}
    /\ autoSends' = autoSends + 1
    /\ UNCHANGED <<qEmail, countdown, toast,
                   cLoading, cUser, page, isChecking, redirect, svars, xvars>>

\* A click on Resend: resendOTP calls sendOTP.  Effects are flushed before
\* a click is handled.
ClickResend ==
    /\ FormShown /\ ~AutoSendDue
    /\ ~isLoading /\ countdown = 0
    /\ verificationAttempted' = AttemptedAfterSend(verificationAttempted)
    /\ isLoading' = TRUE
    /\ inflight' = inflight \cup
          {OtpRequest("/email/send-otp", PageEmail(qEmail, cUser),
                      "click", cUser)}
    /\ UNCHANGED <<qEmail, countdown, toast, autoSends,
                   cLoading, cUser, page, isChecking, redirect, svars, xvars>>

\* The form is submitted: verifyOTP.
ClickVerify ==
    /\ FormShown /\ ~AutoSendDue
    /\ ~isLoading
    /\ isLoading' = TRUE
    /\ inflight' = inflight \cup
          {OtpRequest("/email/verify-otp", PageEmail(qEmail, cUser),
                      "click", cUser)}
    /\ UNCHANGED <<qEmail, verificationAttempted, countdown, toast,
                   autoSends,
                   cLoading, cUser, page, isChecking, redirect, svars, xvars>>

\* The response to a send arrives: the toast, and on success the countdown
\* is set to secs, the seconds the response stands for.
RespondSend(r, kind, wire, secs) ==
    /\ page = "/verify-email"
    /\ r \in inflight /\ r.endpoint = "/email/send-otp"
    /\ inflight' = inflight \ {r}
    /\ isLoading' = FALSE
    /\ toast' = [op |-> "send", kind |-> kind, wire |-> wire,
                 text |-> SendMessage(ServerSendResponse(kind, wire))]
    /\ countdown' = IF kind = "Success" THEN secs ELSE countdown
    /\ UNCHANGED <<qEmail, verificationAttempted, autoSends,
                   cLoading, cUser, page, isChecking, redirect, svars, xvars>>

\* The response to a verify arrives: the toast; on success refreshUser()
\* and the push to the dashboard.
RespondVerify(r, kind, wire, u) ==
    /\ page = "/verify-email"
    /\ r \in inflight /\ r.endpoint = "/email/verify-otp"
    /\ inflight' = inflight \ {r}
    /\ isLoading' = FALSE
    /\ toast' = [op |-> "verify", kind |-> kind, wire |-> wire,
                 text |-> VerifyMessage(ServerVerifyResponse(kind, wire))]
    /\ IF kind = "Success"
       THEN /\ cUser' = IF cUser # Null /\ u.email = cUser.email
                        THEN u ELSE cUser
            /\ redirect' = "/"
       ELSE UNCHANGED <<cUser, redirect>>
    /\ UNCHANGED <<qEmail, verificationAttempted, countdown, autoSends,
                   cLoading, page, isChecking, svars, xvars>>

\* The countdown reaches 0.
CountdownEnds ==
    /\ page = "/verify-email" /\ countdown > 0
    /\ countdown' = 0
    /\ UNCHANGED <<qEmail, verificationAttempted, isLoading, inflight,
                   toast, autoSends,
                   cLoading, cUser, page, isChecking, redirect, svars, xvars>>

\* The effect for a user who is already verified: router.push('/').
VerifiedEffect ==
    /\ page = "/verify-email"
    /\ cUser # Null /\ cUser.is_email_verified
    /\ redirect # "/"
    /\ redirect' = "/"
    /\ UNCHANGED <<pvars, cLoading, cUser, page, isChecking, svars, xvars>>

PageNext ==
    \/ \E u \in ClientUsers \cup {Null} : InitAuth(u)
    \/ \E u \in ClientUsers : RefreshUser(u)
    \/ Logout
    \/ \E q \in QueryEmails : OpenVerifyEmail(q)
    \/ AutoSendEffect
    \/ ClickResend
    \/ ClickVerify
    \/ \E r \in inflight, kind \in SendOutcomes, wire \in WireForms :
          RespondSend(r, kind, wire, 1)
    \/ \E r \in inflight, kind \in FailureKinds \cup {"Success"},
          wire \in WireForms, u \in ClientUsers :
          RespondVerify(r, kind, wire, u)
    \/ CountdownEnds
    \/ VerifiedEffect
    \/ FollowRedirect

PageSpec == Init /\ [][PageNext]_vars

\* ------------------------------------------------------------------------
\* The countdown of the verify-email page, second by second
\* ------------------------------------------------------------------------

SecondsPerMinute == 60

\* setCountdown(data.expires_in_minutes * 60)
CountdownAfterSend(expires_in_minutes) ==
    expires_in_minutes * SecondsPerMinute

\* The interval fires: setCountdown((prev) => prev - 1).  The interval
\* stays set until the effect of the next render clears it.
IntervalTick ==
    /\ page = "/verify-email" /\ timer
    /\ countdown > 0 - MaxOvershoot
    /\ countdown' = countdown - 1
    /\ UNCHANGED <<qEmail, verificationAttempted, isLoading, inflight,
                   toast, autoSends,
                   cLoading, cUser, page, isChecking, redirect, svars, xvars>>

\* The countdown effect after a render: the interval of the last render
\* is cleared and, if countdown > 0, a new one is set.
CountdownEffect ==
    /\ page = "/verify-email"
    /\ timer # (countdown > 0)
    /\ timer' = (countdown > 0)
    /\ UNCHANGED <<svars, cvars, dvars, avars, uvars>>

CountdownNext ==
    \/ InitAuth(Null)
    \/ \E q \in QueryEmails : OpenVerifyEmail(q)
    \/ AutoSendEffect
    \/ ClickResend
    \/ \E r \in inflight, kind \in SendOutcomes, wire \in WireForms :
          RespondSend(r, kind, wire, CountdownAfterSend(ExpiryMinutes))
    \/ IntervalTick
    \/ CountdownEffect

CountdownSpec == Init /\ [][CountdownNext]_vars

\* ------------------------------------------------------------------------
\* The schema scripts and the users.role column
\* ------------------------------------------------------------------------

\* ALTER TABLE users ADD COLUMN IF NOT EXISTS role ... CHECK (role IN
\* accepted): skipped as a whole, CHECK included, when the column exists.
AddRoleColumn(check, accepted) ==
    IF check = NoColumn THEN accepted ELSE check

\* The rows after the statement: DEFAULT 'user' fills a column it adds.
DefaultRoles(check, roles) ==
    [e \in DbUsers |->
        IF check = NoColumn /\ roles[e] = NoRole THEN "user" ELSE roles[e]]

\* A users row is inserted without a role.
InsertUser(e) ==
    /\ dbRole[e] = NoRow
    /\ dbRole' = [dbRole EXCEPT
                     ![e] = IF roleCheck = NoColumn THEN NoRole ELSE "user"]
    /\ sqlState' = ""
    /\ UNCHANGED <<roleCheck, applied, svars, cvars, avars, uvars, timer>>

\* UPDATE users SET role = r for one row: refused by the CHECK unless r
\* is one of the accepted values.
SetRole(e, r) ==
    /\ roleCheck # NoColumn /\ dbRole[e] # NoRow
    /\ IF r \in roleCheck
       THEN dbRole' = [dbRole EXCEPT ![e] = r] /\ sqlState' = "ok"
       ELSE dbRole' = dbRole /\ sqlState' = "check_violation"
    /\ UNCHANGED <<roleCheck, applied, svars, cvars, avars, uvars, timer>>

\* The role-and-verification script: statement 1.
RunRoleScript ==
    /\ \A i \in 1..Len(applied) : applied[i] # "role"
    /\ roleCheck' = AddRoleColumn(roleCheck, RoleScriptRoles)
    /\ dbRole' = DefaultRoles(roleCheck, dbRole)
    /\ applied' = Append(applied, "role")
    /\ sqlState' = ""
    /\ UNCHANGED <<svars, cvars, avars, uvars, timer>>

\* The job-system script: statement 1, then statement 11, which sets the
\* role of the row of company@example.com to 'company'.
RunJobScript ==
    /\ \A i \in 1..Len(applied) : applied[i] # "job"
    /\ roleCheck' = AddRoleColumn(roleCheck, JobScriptRoles)
    /\ applied' = Append(applied, "job")
    /\ IF dbRole[CompanyEmail] = NoRow
       THEN /\ dbRole' = DefaultRoles(roleCheck, dbRole)
            /\ sqlState' = ""
       ELSE IF "company" \in roleCheck'
       THEN /\ dbRole' = [DefaultRoles(roleCheck, dbRole)
                             EXCEPT ![CompanyEmail] = "company"]
            /\ sqlState' = "ok"
       ELSE /\ dbRole' = DefaultRoles(roleCheck, dbRole)
            /\ sqlState' = "check_violation"
    /\ UNCHANGED <<svars, cvars, avars, uvars, timer>>

SchemaNext ==
    \/ \E e \in DbUsers : InsertUser(e)
    \/ \E e \in DbUsers, r \in Roles : SetRole(e, r)
    \/ RunRoleScript
    \/ RunJobScript

SchemaSpec == Init /\ [][SchemaNext]_vars

\* ------------------------------------------------------------------------
\* The account row and the profile page
\* ------------------------------------------------------------------------

\* The addresses an account can have: the one it signed up with and
\* another one.
AccountEmails == Emails \cup {OtherEmail}

\* The record /users/me and PUT /users/{id} return for the account.
AccountUser(acc) ==
    IF acc.exists
    THEN [email |-> acc.email, role |-> "user",
          is_email_verified |-> acc.is_email_verified]
    ELSE Null

\* POST /auth/signup: the row is created with is_email_verified = FALSE.
CreateAccount(e) ==
    /\ ~account.exists
    /\ account' = [exists |-> TRUE, email |-> e, is_email_verified |-> FALSE]
    /\ UNCHANGED <<verifiedFor, svars, cvars, dvars, avars, timer>>

\* A verify for the address e reports success: the verifier sets
\* is_email_verified of the user that owns e.
VerifySucceeded(e) ==
    /\ account.exists
    /\ verifiedFor' = verifiedFor \cup {e}
    /\ account' = IF account.email = e
                  THEN [account EXCEPT !.is_email_verified = TRUE]
                  ELSE account
    /\ <<verifiedFor', account'>> # <<verifiedFor, account>>
    /\ UNCHANGED <<svars, cvars, dvars, avars, timer>>

\* PUT /users/{id}: a profile update writes the profile fields.
ProfileUpdate(acc, e) == [acc EXCEPT !.email = e]

\* updateUser, called by handleSave of the profile page with the email of
\* the form: setUser(response.data).
UpdateUser(e) ==
    /\ page = "/profile"
    /\ PageView(page, cLoading, isChecking, cUser).kind = "Admit"
    /\ account.exists /\ cUser.email = account.email
    /\ e # account.email
    /\ account' = ProfileUpdate(account, e)
    /\ cUser' = AccountUser(account')
    /\ isChecking' = Checking(page, cLoading, cUser', isChecking)
    /\ UNCHANGED <<verifiedFor, cLoading, page, redirect, svars, pvars,
                   dvars, avars, timer>>

ProfileNext ==
    \/ \E e \in AccountEmails : CreateAccount(e)
    \/ \E e \in AccountEmails : VerifySucceeded(e)
    \/ \E e \in AccountEmails : UpdateUser(e)
    \/ InitAuth(AccountUser(account))
    \/ account.exists /\ Login(AccountUser(account))
    \/ account.exists /\ RefreshUser(AccountUser(account))
    \/ Logout
    \/ \E p \in Routes : Navigate(p)
    \/ GuardEffect
    \/ HomeEffect
    \/ FollowRedirect

ProfileSpec == Init /\ [][ProfileNext]_vars

\* ------------------------------------------------------------------------
\* The AuthProvider, the browser's storage and the pages' data requests
\* ------------------------------------------------------------------------

StoredToken == "access_token"

\* What the server answers a request that carries the stored token: a
\* result, 401, or another failure (no answer, 5xx).
Outcomes == {"ok", "401", "error"}

\* Variant: a token is still used at the instant of its expiry.
TokenFresh_Inclusive(t, expiry) == t <= expiry

\* if (now < expiry)
TokenFresh(t, expiry) == t < expiry

\* localStorage.removeItem of token and tokenExpiry.
RemoveStored ==
    /\ token' = NoToken
    /\ tokenExpiry' = NoExpiry

\* window.location.href = '/': the document is replaced by a new one at
\* '/', whose AuthProvider starts with loading = true and no user.
LoadHome ==
    /\ page' = "/"
    /\ cLoading' = TRUE
    /\ cUser' = Null
    /\ isChecking' = TRUE
    /\ redirect' = ""
    /\ NewDocument

\* The response interceptor on a 401: the stored items are removed and,
\* unless the path is '/', the browser is sent to '/'.
Intercept401Reloads == page # "/"

\* The browser loads the current route again (reload, or the site is
\* opened again later): storage is kept, the AuthProvider starts anew.
Reload ==
    /\ ~cLoading
    /\ cLoading' = TRUE
    /\ cUser' = Null
    /\ isChecking' = TRUE
    /\ redirect' = ""
    /\ NewDocument
    /\ UNCHANGED <<page, token, tokenExpiry, cNow, svars, pvars, dvars,
                   uvars>>

\* Time passes in the browser.
ClientClock ==
    /\ cNow < MaxClock
    /\ cNow' = cNow + 1
    /\ UNCHANGED <<svars, cvars, dvars, uvars, timer, token, tokenExpiry,
                   initAuth, loginPc, apiReq, loadedFor>>

\* initAuth up to its first await: the stored items are read; a fresh
\* token is sent to /users/me, an expired one is removed, and without a
\* token and an expiry nothing is done but setLoading(false).
InitAuthStart ==
    /\ cLoading /\ initAuth.pc = "start"
    /\ LET read == [initAuth EXCEPT !.token = token,
                                    !.tokenExpiry = tokenExpiry,
                                    !.now = cNow]
       IN  IF token # NoToken /\ tokenExpiry # NoExpiry
           THEN IF TokenFresh(cNow, tokenExpiry)
                THEN /\ initAuth' = [read EXCEPT !.pc = "fetch"]
                     /\ UNCHANGED <<cLoading, isChecking, token,
                                    tokenExpiry>>
                ELSE /\ initAuth' = [read EXCEPT !.pc = "done"]
                     /\ RemoveStored
                     /\ cLoading' = FALSE
                     /\ isChecking' =
                            Checking(page, FALSE, cUser, isChecking)
           ELSE /\ initAuth' = [read EXCEPT !.pc = "done"]
                /\ cLoading' = FALSE
                /\ isChecking' = Checking(page, FALSE, cUser, isChecking)
                /\ UNCHANGED <<token, tokenExpiry>>
    /\ UNCHANGED <<cUser, page, redirect, cNow, loginPc, apiReq, loadedFor,
                   svars, pvars, dvars, uvars, timer>>

\* initAuth after /users/me has answered: setUser on a result; on a
\* failure the stored items are removed; setLoading(false) in both cases.
\* A 401 passes through the response interceptor first.
InitAuthFetched(out, u) ==
    /\ cLoading /\ initAuth.pc = "fetch"
    /\ IF out = "401" /\ Intercept401Reloads
       THEN /\ RemoveStored
            /\ LoadHome
       ELSE /\ initAuth' = [initAuth EXCEPT !.pc = "done", !.fetched = out]
            /\ cLoading' = FALSE
            /\ cUser' = IF out = "ok" THEN u ELSE cUser
            /\ isChecking' = Checking(page, FALSE, cUser', isChecking)
            /\ IF out = "ok"
               THEN UNCHANGED <<token, tokenExpiry>>
               ELSE RemoveStored
            /\ UNCHANGED <<page, redirect, loginPc, apiReq, loadedFor,
                           timer>>
    /\ UNCHANGED <<cNow, svars, pvars, dvars, uvars>>

\* login is called: POST /auth/login is on its way.
LoginSubmit ==
    /\ page = "/login" /\ ~cLoading /\ cUser = Null
    /\ loginPc = "idle"
    /\ loginPc' = "auth"
    /\ UNCHANGED <<svars, cvars, dvars, uvars, timer, token, tokenExpiry,
                   cNow, initAuth, apiReq, loadedFor>>

\* login after /auth/login has answered: the token and its expiry, two
\* days ahead, are stored and /users/me is asked; a failure ends login.
LoginAuthenticated(out) ==
    /\ loginPc = "auth"
    /\ IF out = "401" /\ Intercept401Reloads
       THEN /\ RemoveStored
            /\ LoadHome
       ELSE /\ IF out = "ok"
               THEN /\ token' = StoredToken
                    /\ tokenExpiry' = cNow + TokenLifeDays
                    /\ loginPc' = "fetch"
               ELSE /\ loginPc' = "idle"
                    /\ IF out = "401"
                       THEN RemoveStored
                       ELSE UNCHANGED <<token, tokenExpiry>>
            /\ UNCHANGED <<cLoading, cUser, page, isChecking, redirect,
                           initAuth, apiReq, loadedFor, timer>>
    /\ UNCHANGED <<cNow, svars, pvars, dvars, uvars>>

\* login after /users/me has answered: setUser on a result; a failure is
\* caught, reported by a toast, and login returns false.
LoginFetched(out, u) ==
    /\ loginPc = "fetch"
    /\ IF out = "401" /\ Intercept401Reloads
       THEN /\ RemoveStored
            /\ LoadHome
       ELSE /\ loginPc' = "idle"
            /\ cUser' = IF out = "ok" THEN u ELSE cUser
            /\ isChecking' = Checking(page, cLoading, cUser', isChecking)
            /\ IF out = "401"
               THEN RemoveStored
               ELSE UNCHANGED <<token, tokenExpiry>>
            /\ UNCHANGED <<cLoading, page, redirect, initAuth, apiReq,
                           loadedFor, timer>>
    /\ UNCHANGED <<cNow, svars, pvars, dvars, uvars>>

DataRequest(endpoint, p, u) ==
    [endpoint |-> endpoint, page |-> p, caller |-> u]

\* A data-loading effect has run: its request is on its way.
Requested(endpoint) ==
    /\ loadedFor # page
    /\ loadedFor' = page
    /\ apiReq' = DataRequest(endpoint, page, cUser)
    /\ UNCHANGED <<svars, cvars, dvars, uvars, timer, token, tokenExpiry,
                   cNow, initAuth, loginPc>>

\* AdminPage: useEffect(() => { loadUsers(); }, []).
LoadUsers == page = "/admin" /\ Requested("/users/")

\* JobsPage: useEffect(() => { loadJobs(); }, [searchParams]).
LoadJobs == page = "/jobs" /\ Requested("/jobs/")

\* CompanyDashboard: useEffect(() => { if (hasCompanyAccess)
\* loadCompanyData(); }, [hasCompanyAccess]).
LoadCompanyData ==
    /\ page = "/company" /\ ~cLoading /\ HasCompanyAccess(cUser)
    /\ Requested("/jobs/companies/")

\* The data request is answered; a 401 passes through the response
\* interceptor, the page's handler changes neither user nor storage.
ApiResponded(out) ==
    /\ apiReq # NoReq
    /\ IF out = "401" /\ Intercept401Reloads
       THEN /\ RemoveStored
            /\ LoadHome
       ELSE /\ apiReq' = NoReq
            /\ IF out = "401"
               THEN RemoveStored
               ELSE UNCHANGED <<token, tokenExpiry>>
            /\ UNCHANGED <<cvars, initAuth, loginPc, loadedFor, timer>>
    /\ UNCHANGED <<cNow, svars, pvars, dvars, uvars>>

ClientNext ==
    \/ InitAuthStart
    \/ \E out \in Outcomes, u \in ClientUsers : InitAuthFetched(out, u)
    \/ LoginSubmit
    \/ \E out \in Outcomes : LoginAuthenticated(out)
    \/ \E out \in Outcomes, u \in ClientUsers : LoginFetched(out, u)
    \/ Logout
    \/ Reload
    \/ ClientClock
    \/ \E p \in Routes : Navigate(p)
    \/ LoadUsers
    \/ LoadJobs
    \/ LoadCompanyData
    \/ \E out \in Outcomes : ApiResponded(out)

ClientSpec == Init /\ [][ClientNext]_vars

\* The effect that calls initAuth runs when the AuthProvider is mounted,
\* and the request it awaits is answered or fails.
ClientSpecFair ==
    /\ ClientSpec
    /\ WF_vars(InitAuthStart)
    /\ WF_vars(\E out \in Outcomes, u \in ClientUsers :
                  InitAuthFetched(out, u))

TypeOK ==
    /\ now \in 0..MaxTime
    /\ nextId \in 1..(MaxOtps + 1)
    /\ \A r \in Rows : r.id < nextId /\ r.email \in Emails

\* ------------------------------------------------------------------------
\* Properties of the OTP Issuer and Verifier
\* ------------------------------------------------------------------------

VerifyReturned == resp.op = "verify"

\* C1: verify(E, c) reports success if and only if E has a record whose
\* code is c, that is unexpired when the verifier looks it up and that is
\* unused; a request that loses the conditional update is told AlreadyUsed.
C1_VerifyIff ==
    VerifyReturned =>
        /\ resp.result = "Success" => resp.live
        /\ resp.live => resp.result \in {"Success", "AlreadyUsed"}

\* C2: a verify(E, c) answered right after a successful verify(E, c) with
\* the same code fails, and it fails with AlreadyUsed.
C2_SecondVerifyAlreadyUsed ==
    [][ ( /\ VerifyReturned /\ resp.result = "Success"
          /\ resp'.op = "verify"
          /\ resp'.email = resp.email
          /\ resp'.otp_code = resp.otp_code )
        => resp'.result = "AlreadyUsed" ]_vars

C4_SuccessImpliesBoth ==
    (VerifyReturned /\ resp.result = "Success") =>
        /\ \A r \in Rows : r.id = resp.rec => r.is_used
        /\ users[resp.email].exists => users[resp.email].is_email_verified

\* C4 witness: a success response with the record marked and the user of
\* the email verified.
C4_Witness ==
    /\ VerifyReturned /\ resp.result = "Success"
    /\ \E r \in Rows : r.id = resp.rec /\ r.is_used
    /\ users[resp.email].exists /\ users[resp.email].is_email_verified

InWindow(e) == \E r \in RowsOf(e) : now <= r.expires_at

C7_AtMostOneActive ==
    \A e \in Emails : Cardinality(ActiveOf(e, now)) <= 1

\* C8: when issue(E) creates its record and E has no active record, E has
\* exactly one active record afterwards, expiring ExpiryMinutes after the
\* issuance.
C8_IssueOneActive ==
    [][ \A s \in IReqs, e \in Emails :
          ( /\ ireq[s].pc = "create" /\ ireq'[s].pc = "idle"
            /\ ireq[s].email = e
            /\ ActiveOf(e, now) = {} )
          => /\ resp'.op = "issue" /\ resp'.result = "Success"
             /\ Cardinality(ActiveOf(e, now)') = 1
             /\ \A r \in ActiveOf(e, now)' :
                   r.id = resp'.rec /\ r.expires_at = now + ExpiryMinutes
      ]_vars

\* C8 witness: an issue succeeded for an email whose earlier record had
\* expired, and its record is the one active record of the email.
C8_Witness ==
    /\ resp.op = "issue" /\ resp.result = "Success"
    /\ Cardinality(ActiveOf(resp.email, now)) = 1
    /\ Cardinality(RowsOf(resp.email)) = 2

\* C9: after resend(E) succeeds every other record of E is invalid, and a
\* verify(E, c) gets past the lookup only with the code of the new record.
C9_ResendSupersedes ==
    (resp.op = "resend" /\ resp.result = "Success") =>
        /\ \A r \in RowsOf(resp.email) : r.id # resp.rec => r.is_used
        /\ \A c \in Codes :
              VerifyOutcome(resp.email, c, now) = "Match"
                  <=> c = resp.otp_code

\* C9 witness: a resend superseded a record with another code that was
\* unused until then and has not expired.
C9_Witness ==
    /\ resp.op = "resend" /\ resp.result = "Success"
    /\ \E r \in RowsOf(resp.email) :
          /\ r.id # resp.rec /\ r.otp_code # resp.otp_code
          /\ r.id \notin wins.once
          /\ ~IsExpired(r, now)
          /\ VerifyOutcome(resp.email, r.otp_code, now) = "Mismatch"

\* The latest unused record of e has the code c and has expired.
LateCorrect(e, c) ==
    /\ FindLatestUnusedOtp(e) # NoRec
    /\ RowById(FindLatestUnusedOtp(e)).otp_code = c
    /\ now > RowById(FindLatestUnusedOtp(e)).expires_at

\* C12: a verify that fails changes no row of email_otps and no user; a
\* correct code submitted after the expiry of its record is not taken to
\* the mark-used step and is answered Expired.
C12_FailedVerifyNoEffect ==
    [][ /\ (resp'.op = "verify" /\ resp'.result # "Success")
              => (otps' = otps /\ users' = users)
        /\ \A v \in VReqs :
              (vreq[v].pc = "idle" /\ vreq'[v].pc = "mark")
                  => ~LateCorrect(vreq'[v].email, vreq'[v].otp_code)
        /\ ( /\ resp'.op = "verify" /\ vreq' = vreq
             /\ LateCorrect(resp'.email, resp'.otp_code) )
              => resp'.result = "Expired"
      ]_vars

\* C12 witness: the code of an expired, unused record was answered Expired
\* and the user of the email is still unverified.
C12_Witness ==
    /\ VerifyReturned /\ resp.result = "Expired"
    /\ FindLatestUnusedOtp(resp.email) # NoRec
    /\ RowById(FindLatestUnusedOtp(resp.email)).otp_code = resp.otp_code
    /\ users[resp.email].exists /\ ~users[resp.email].is_email_verified

C15_FailureKinds ==
    (VerifyReturned /\ resp.result # "Success") =>
        /\ resp.result \in {"NotFound", "Expired", "Mismatch", "AlreadyUsed"}
        /\ resp.result = "NotFound" =>
              FindLatestUnusedOtp(resp.email) = NoRec
        /\ resp.result = "Expired" =>
              /\ FindLatestUnusedOtp(resp.email) # NoRec
              /\ now > RowById(FindLatestUnusedOtp(resp.email)).expires_at
        /\ resp.result = "Mismatch" =>
              /\ FindLatestUnusedOtp(resp.email) # NoRec
              /\ now <= RowById(FindLatestUnusedOtp(resp.email)).expires_at
              /\ resp.otp_code #
                    RowById(FindLatestUnusedOtp(resp.email)).otp_code

\* C15 witness: a wrong code for an unexpired record was answered Mismatch.
C15_Witness ==
    /\ VerifyReturned /\ resp.result = "Mismatch"
    /\ ActiveOf(resp.email, now) # {}

\* C16: when a verify marks the latest record used, the earlier records of
\* the email are invalid afterwards: none of them is still active.
C16_OthersInvalidated ==
    [][ \A v \in VReqs :
          (vreq[v].pc = "mark" /\ vreq'[v].pc = "setuser")
          => \A r \in Rows' :
                (r.email = vreq[v].email /\ r.id < vreq[v].rec)
                    => ~(~r.is_used /\ now <= r.expires_at)
      ]_vars

\* C19: cleanup_expired_otps() keeps exactly the records that are unused
\* and unexpired, in their order, and returns the number it deleted.
C19_CleanupExact ==
    [][ resp'.op = "cleanup" =>
          /\ otps' = SelectSeq(otps,
                        LAMBDA r : ~r.is_used /\ now <= r.expires_at)
          /\ resp'.deleted_count =
                Cardinality({r \in Rows : r.is_used \/ now > r.expires_at})
      ]_vars

\* C19 witness: a cleanup deleted a record and kept an active one.
C19_Witness ==
    /\ resp.op = "cleanup" /\ resp.deleted_count >= 1
    /\ \E r \in Rows : IsActive(r, now)

\* C23: an issue is refused with RateLimitExceeded only while the
\* last-issued record of the email is inside its window; once that record
\* has expired the email is no longer rate-limited.
C23_CooldownEnds ==
    (resp.op = "issue" /\ resp.result = "RateLimitExceeded") =>
        /\ FindLastIssued(resp.email) # NoRec
        /\ now <= RowById(FindLastIssued(resp.email)).expires_at

\* C23 witness: an issue was accepted and created its record after the
\* last-issued record of the email had expired.
C23_Witness ==
    /\ resp.op = "issue" /\ resp.result = "Success"
    /\ \E r \in RowsOf(resp.email) :
          r.id + 1 = resp.rec /\ now > r.expires_at

\* ------------------------------------------------------------------------
\* Properties of the Session/Role Gate
\* ------------------------------------------------------------------------

\* The roles a protected route is open to.
RequiredRoles(p) ==
    CASE p = "/admin"   -> {"admin"}
      [] p = "/company" -> {"company", "admin"}
      [] OTHER          -> Roles

\* The decision of the gate in the order of the design: session, then
\* verification, then role.
GateDecision(p, u) ==
    IF u = Null THEN View("Unauthenticated", "")
    ELSE IF ~u.is_email_verified
         THEN View("VerificationRequired", u.email)
    ELSE IF u.role \notin RequiredRoles(p) THEN View("Forbidden", "")
    ELSE View("Admit", "")

\* The page has finished loading and checking.
Settled ==
    /\ page \in Protected
    /\ ~cLoading
    /\ GuardMounted(page, cLoading, cUser) => ~isChecking

\* C10: on every protected route the settled page shows the decision of the
\* gate: Unauthenticated without a session, else VerificationRequired with
\* the user's email for an unverified user whatever the role, else
\* Forbidden for an insufficient role, else the page.
C10_GateOrder ==
    Settled => PageView(page, cLoading, isChecking, cUser)
                  = GateDecision(page, cUser)

\* A signed-in, verified user whose role is `user`.
VerifiedPlainUser ==
    cUser # Null /\ cUser.is_email_verified /\ cUser.role = "user"

\* C11: a verified user of role `user` never sees the content of the admin
\* page, and sees the dashboard, the jobs page and the profile page once
\* they have finished loading and checking.
C11_UserRoleGate ==
    VerifiedPlainUser =>
        /\ page = "/admin" =>
              AdminPageView(cLoading, isChecking, cUser).kind # "Admit"
        /\ (page = "/" /\ ~cLoading) =>
              HomeView(cLoading, cUser).kind = "Admit"
        /\ (page \in {"/jobs", "/profile"} /\ Settled) =>
              PageView(page, cLoading, isChecking, cUser).kind = "Admit"

\* C11 witness: the admin page refuses a verified user of role `user`.
C11_Witness ==
    /\ VerifiedPlainUser /\ page = "/admin" /\ ~cLoading
    /\ AdminPageView(cLoading, isChecking, cUser).kind = "Forbidden"

\* C20: a mounted EmailVerificationGuard renders its children if and only
\* if loading and checking are over and a verified user is present.
C20_GuardChildren ==
    GuardMounted(page, cLoading, cUser) =>
        ( GuardView(cLoading, isChecking, cUser).kind = "Admit"
          <=> /\ ~cLoading /\ ~isChecking
              /\ cUser # Null /\ cUser.is_email_verified )

\* C20 witness: the guard has finished checking and renders its children.
C20_Witness ==
    /\ GuardMounted(page, cLoading, cUser) /\ ~isChecking
    /\ GuardView(cLoading, isChecking, cUser).kind = "Admit"

\* ------------------------------------------------------------------------
\* Properties of the verify-email page
\* ------------------------------------------------------------------------

\* C13: a request made with the token of a signed-in user is acted on for
\* the address of that user.
C13_SessionEmail ==
    \A r \in inflight : r.sess # "" => ActedEmail(r) = r.sess

C18_NoAutomaticRetry ==
    [][ /\ autoSends' <= 1
        /\ \A r \in inflight' \ inflight :
              \/ r.by = "click"
              \/ /\ r.by = "effect" /\ r.endpoint = "/email/send-otp"
                 /\ autoSends = 0
      ]_vars

\* C18 witness: the automatic send has failed, the user object has changed
\* since, and no request is under way.
C18_Witness ==
    /\ page = "/verify-email" /\ autoSends = 1 /\ inflight = {}
    /\ toast.op = "send" /\ toast.kind # "Success"
    /\ qEmail = "" /\ cUser # Null /\ cUser.is_email_verified
    /\ PageEmail(qEmail, cUser) # ""

\* C21: when the page follows the push to '/' after a verify that reported
\* success, the dashboard is shown.
C21_DashboardAfterVerify ==
    [][ ( /\ page = "/verify-email" /\ redirect = "/" /\ page' = "/"
          /\ toast.op = "verify" /\ toast.kind = "Success"
          /\ cUser' = cUser /\ cLoading' = cLoading )
        => HomeView(cLoading', cUser').kind = "Admit" ]_vars

\* C22: every request made by a click on a Resend control goes to the
\* resend endpoint.
C22_ResendControl ==
    \A r \in inflight :
        (r.by = "click" /\ r.endpoint # "/email/verify-otp")
            => r.endpoint = "/email/resend-otp"

\* ------------------------------------------------------------------------
\* Properties of the schema scripts
\* ------------------------------------------------------------------------

\* C25: once both schema scripts have been run, in either order, the role
\* column accepts exactly admin, user and company, and no statement that
\* sets a role to company is refused.
C25_RoleValues ==
    Len(applied) = 2 =>
        /\ roleCheck = {"admin", "user", "company"}
        /\ sqlState # "check_violation"

\* ------------------------------------------------------------------------
\* Properties of the account row
\* ------------------------------------------------------------------------

\* C29: the account is marked verified only if a verify has succeeded for
\* the email address it has now.
C29_VerifiedForCurrentEmail ==
    (account.exists /\ account.is_email_verified)
        => account.email \in verifiedFor

\* ------------------------------------------------------------------------
\* Properties of the AuthProvider and of the pages' data requests
\* ------------------------------------------------------------------------

\* C24: a loading AuthProvider ends its initialisation, and the step that
\* ends initAuth leaves loading = false, and leaves a user if and only if
\* initAuth read a token and a tokenExpiry, read a time strictly before
\* that expiry, and /users/me answered with a record.
C24_InitAuthOutcome ==
    /\ cLoading ~> (~cLoading /\ initAuth.pc = "done")
    /\ [][ (initAuth.pc # "done" /\ initAuth'.pc = "done")
           => /\ ~cLoading'
              /\ cUser' # Null <=>
                    ( /\ initAuth'.token # NoToken
                      /\ initAuth'.tokenExpiry # NoExpiry
                      /\ initAuth'.now < initAuth'.tokenExpiry
                      /\ initAuth'.fetched = "ok" ) ]_vars

\* C24 witness: initAuth has ended with a user.
C24_Witness ==
    initAuth.pc = "done" /\ initAuth.fetched = "ok" /\ cUser # Null

\* C26: a user is held only while a token is stored.
C26_UserNeedsToken == cUser # Null => token # NoToken

\* C27: with no user and neither initialisation nor login in progress, no
\* token is stored.
C27_NoUserNoToken ==
    (cUser = Null /\ ~cLoading /\ loginPc = "idle") => token = NoToken

\* C28: a protected page's data request is made only for a caller the gate
\* admits to the page.
C28_DataForAdmitted ==
    apiReq # NoReq =>
        GateDecision(apiReq.page, apiReq.caller).kind = "Admit"

\* ------------------------------------------------------------------------
\* Properties of the countdown
\* ------------------------------------------------------------------------

\* C30: the countdown of the verify-email page is never negative.
C30_CountdownNonNegative == countdown >= 0

====
